---- MODULE Spec2Model ----
(***************************************************************************)
(* wagtail-airtable: the push-on-save state machine of AirtableMixin       *)
(* (wagtail_airtable/mixins.py) and the two bulk importers,                *)
(* AirtableModelImporter (wagtail_airtable/importer.py) and Importer       *)
(* (wagtail_airtable/management/commands/import_airtable.py).              *)
(*                                                                         *)
(* A local record is a function pk -> stored row of the Django table; the  *)
(* remote table is a function record id -> fields, listed in IdOrder.      *)
(* Airtable columns are "Title", "Slug" and "Publications"; the model      *)
(* fields are "title", "slug" and the many-to-many "publications".         *)
(***************************************************************************)
EXTENDS Integers, Sequences, FiniteSets, TLC

VARIABLES
    db,        \* local store: pk -> stored record (domain = existing pks)
    nextPk,    \* the primary key the local store hands out next
    settings,  \* django.conf.settings: the Airtable configuration (never changes)
    remote,    \* remote tables: <<base, table name>> -> (record id -> fields)
    issued,    \* number of ids the remote has handed out to inserted rows
    inst,      \* the in-memory model instance save()/delete() work on
    calls,     \* remote calls made by the last operation, in order
    last,      \* what the last operation was and how it ended
    ops,       \* number of operations performed so far
    imp        \* state of the running bulk import

vars == <<settings, db, nextPk, remote, issued, inst, calls, last, ops, imp>>

----------------------------------------------------------------------------
(* Bounds *)

MaxCalls == 4     \* remote responses one save()/delete() may consume
MaxOps == 2       \* save()/delete() calls in one behaviour
MaxRuns == 2      \* bulk import runs in one behaviour

(* Value universes *)

NoId == ""                                  \* an empty airtable_record_id
RemoteIds == {"rec1", "rec2"}               \* ids of rows that pre-exist remotely
NewIds == <<"recN1", "recN2", "recN3">>     \* ids the remote gives to inserted rows
IdOrder == <<"rec1", "rec2", "recN1", "recN2", "recN3">>  \* listing order
Slugs == {"a", "b"}
Titles == {"x", "y"}
Pubs == {"p"}
Responses == {"ok", "err"}                  \* the remote answers, or HTTPError

\* the texts an HTTPError of the client carries: the status code, and what
\* follows "[Error: " when the response had a JSON error body ("" when it had none)
ErrorMessages ==
    {[code |-> 401, body |-> "dict"], [code |-> 404, body |-> "NOT_FOUND"],
     [code |-> 404, body |-> ""], [code |-> 502, body |-> ""],
     [code |-> 503, body |-> ""]}

\* the empty text: an exception raised without a message
EmptyError == [code |-> 0, body |-> ""]

\* "401 Client Error: Unauthorized for url: ... [Error: {'type': ..., 'message': ...}]"
DefaultError == [code |-> 401, body |-> "dict"]

----------------------------------------------------------------------------
(* Helpers on sequences and functions *)

Range(f) == {f[x] : x \in DOMAIN f}

Restrict(f, S) == [x \in S |-> f[x]]

Put(f, k, v) == [x \in DOMAIN f \cup {k} |-> IF x = k THEN v ELSE f[x]]

Merge(f, g) == [x \in DOMAIN f \cup DOMAIN g |-> IF x \in DOMAIN g THEN g[x] ELSE f[x]]

RECURSIVE SeqFilterIds(_, _)
SeqFilterIds(s, S) ==
    IF s = <<>> THEN <<>>
    ELSE IF Head(s) \in S THEN <<Head(s)>> \o SeqFilterIds(Tail(s), S)
    ELSE SeqFilterIds(Tail(s), S)

\* the rows of a table in the order the remote lists them
Listing(t) == SeqFilterIds(IdOrder, DOMAIN t)

IsPage(model) == model = "SimplePage"

\* class SimilarToAdvert(Advert): the child keeps its rows in the parent's table
Parent(model) == IF model = "SimilarToAdvert" THEN "Advert" ELSE model

----------------------------------------------------------------------------
(* Configuration: settings.AIRTABLE_IMPORT_SETTINGS and the model classes  *)

\* a model's entry of AIRTABLE_IMPORT_SETTINGS; {} (here <<>>) when absent
ModelSettings(label) ==
    IF label \in DOMAIN settings.AIRTABLE_IMPORT_SETTINGS
    THEN settings.AIRTABLE_IMPORT_SETTINGS[label]
    ELSE <<>>

\* dict.get(key) with None written as ""
Get(d, key) == IF key \in DOMAIN d THEN d[key] ELSE ""

\* AIRTABLE_UNIQUE_IDENTIFIER: <<column, field>> for {column: field}, <<>> for None
UniqueIdentifier(ms) ==
    IF "AIRTABLE_UNIQUE_IDENTIFIER" \in DOMAIN ms THEN ms["AIRTABLE_UNIQUE_IDENTIFIER"] ELSE <<>>

\* Model.map_import_fields(): Airtable column -> model field
map_import_fields == [Title |-> "title", Slug |-> "slug", Publications |-> "publications"]

\* the Airtable client a model's settings lead to: <<base, table>>
ClientOf(ms) == <<Get(ms, "AIRTABLE_BASE_KEY"), Get(ms, "AIRTABLE_TABLE_NAME")>>

NoClient == <<>>

\* AIRTABLE_BASE_KEY, AIRTABLE_TABLE_NAME and AIRTABLE_UNIQUE_IDENTIFIER as the
\* class declares them: None
NoConfig == [base_key |-> "", table_name |-> "", unique_identifier |-> <<>>]

\* the same attributes as setup_airtable reads them from a settings entry
ConfigOf(ms) ==
    [base_key |-> Get(ms, "AIRTABLE_BASE_KEY"), table_name |-> Get(ms, "AIRTABLE_TABLE_NAME"),
     unique_identifier |-> UniqueIdentifier(ms)]

----------------------------------------------------------------------------
(* The instance, wagtail_airtable/mixins.py                                *)

NoInst == [pk |-> -1]

\* class attributes of AirtableMixin on a freshly constructed instance
FreshFlags ==
    [ran_airtable_setup |-> FALSE, is_enabled |-> FALSE, internal_push |-> FALSE,
     push_to_airtable |-> TRUE, client |-> NoClient, has_error |-> FALSE,
     export |-> <<>>, config |-> NoConfig]

\* Model.objects.get(pk=pk): an instance loaded from the store
LoadedFrom(store, pk) ==
    [pk |-> pk, model |-> store[pk].model, slug |-> store[pk].slug,
     title |-> store[pk].title, airtable_record_id |-> store[pk].airtable_record_id,
     locked |-> store[pk].locked, in_tree |-> TRUE, flags |-> FreshFlags]

Loaded(pk) == LoadedFrom(db, pk)

\* Model(**kwargs): an instance that is not stored yet; a missing CharField is ""
Constructed(model, kwargs) ==
    [pk |-> 0, model |-> model, slug |-> Get(kwargs, "slug"), title |-> Get(kwargs, "title"),
     airtable_record_id |-> Get(kwargs, "airtable_record_id"), locked |-> FALSE,
     in_tree |-> FALSE, flags |-> FreshFlags]

\* setup_airtable without its run-once test: the settings are read on every call
setup_airtable_every_time(i) ==
    LET ms == ModelSettings(i.model)
        ran == [i EXCEPT !.flags.ran_airtable_setup = TRUE]
        read == [ran EXCEPT !.flags.config = ConfigOf(ms)]
    IN IF ~settings.WAGTAIL_AIRTABLE_ENABLED
       THEN [ran EXCEPT !.flags.client = NoClient, !.flags.internal_push = FALSE,
                        !.flags.is_enabled = FALSE]
       ELSE IF /\ ms # <<>>
               /\ settings.AIRTABLE_API_KEY # ""
               /\ Get(ms, "AIRTABLE_BASE_KEY") # ""
               /\ Get(ms, "AIRTABLE_TABLE_NAME") # ""
               /\ UniqueIdentifier(ms) # <<>>
            THEN [read EXCEPT !.flags.client = ClientOf(ms),
                              !.flags.internal_push = TRUE,
                              !.flags.is_enabled = TRUE]
            ELSE [read EXCEPT !.flags.client = NoClient, !.flags.internal_push = FALSE,
                              !.flags.is_enabled = FALSE]

\* setup_airtable without the test of settings.AIRTABLE_API_KEY
setup_airtable_without_key(i) ==
    IF i.flags.ran_airtable_setup THEN i
    ELSE LET ms == ModelSettings(i.model)
             ran == [i EXCEPT !.flags.ran_airtable_setup = TRUE]
             read == [ran EXCEPT !.flags.config = ConfigOf(ms)]
         IN IF ~settings.WAGTAIL_AIRTABLE_ENABLED THEN ran
            ELSE IF /\ ms # <<>>
                    /\ Get(ms, "AIRTABLE_BASE_KEY") # ""
                    /\ Get(ms, "AIRTABLE_TABLE_NAME") # ""
                    /\ UniqueIdentifier(ms) # <<>>
                 THEN [read EXCEPT !.flags.client = ClientOf(ms),
                                   !.flags.internal_push = TRUE,
                                   !.flags.is_enabled = TRUE]
                 ELSE read

\* AirtableMixin.setup_airtable
setup_airtable(i) ==
    IF i.flags.ran_airtable_setup THEN i
    ELSE LET ms == ModelSettings(i.model)
             ran == [i EXCEPT !.flags.ran_airtable_setup = TRUE]
             read == [ran EXCEPT !.flags.config = ConfigOf(ms)]
         IN IF ~settings.WAGTAIL_AIRTABLE_ENABLED THEN ran
            ELSE IF /\ ms # <<>>
                    /\ settings.AIRTABLE_API_KEY # ""
                    /\ Get(ms, "AIRTABLE_BASE_KEY") # ""
                    /\ Get(ms, "AIRTABLE_TABLE_NAME") # ""
                    /\ UniqueIdentifier(ms) # <<>>
                 THEN [read EXCEPT !.flags.client = ClientOf(ms),
                                   !.flags.internal_push = TRUE,
                                   !.flags.is_enabled = TRUE]
                 ELSE read

\* Advert.get_export_fields, read through the cached property mapped_export_fields
get_export_fields(i, store) ==
    [Title |-> i.title, Slug |-> i.slug,
     Publications |-> IF i.pk \in DOMAIN store THEN store[i.pk].publications ELSE {}]

\* refresh_mapped_export_fields that leaves the cached property in place
refresh_mapped_export_fields_keeping_cache(i) == i

\* AirtableMixin.refresh_mapped_export_fields
refresh_mapped_export_fields(i) == [i EXCEPT !.flags.export = <<>>]

(* A push context c carries the instance, the remote tables, the calls made *)
(* so far and the remote's remaining answers.  c.raised: an HTTPError is    *)
(* propagating; c.status = "budget": the answers ran out before the push    *)
(* ended; c.ret: the value the last function returned.                      *)

Ctx(i, store, rem, iss, oracle) ==
    [inst |-> i, store |-> store, remote |-> rem, issued |-> iss, calls |-> <<>>,
     oracle |-> oracle, status |-> "ok", raised |-> FALSE, ret |-> NoId]

\* a call the remote answered: logged with whether the instance's row was in
\* the local store when the call was made
Answered(c, call) ==
    [c EXCEPT !.calls = Append(@, call \o <<c.inst.pk \in DOMAIN c.store>>),
              !.oracle = Tail(@)]

Tbl(c) == c.remote[c.inst.flags.client]

\* mapped_export_fields: computed on first use, then cached on the instance
WithExport(c) ==
    IF c.inst.flags.export # <<>> THEN c
    ELSE [c EXCEPT !.inst.flags.export = <<get_export_fields(c.inst, c.store)>>]

\* client.get(record_id): HTTPError when the row is missing or the call fails
client_get(c, id) ==
    IF c.oracle = <<>> THEN [c EXCEPT !.status = "budget"]
    ELSE [Answered(c, <<"get", id>>) EXCEPT
            !.raised = ~(Head(c.oracle) = "ok" /\ id \in DOMAIN Tbl(c))]

\* client.search(column, value): ids of the matching rows, in listing order
client_search(c, column, value) ==
    IF c.oracle = <<>> THEN [c EXCEPT !.status = "budget"]
    ELSE IF Head(c.oracle) # "ok" THEN [Answered(c, <<"search", value>>) EXCEPT !.raised = TRUE]
    ELSE [Answered(c, <<"search", value>>) EXCEPT
            !.ret = SeqFilterIds(IdOrder,
                       {id \in DOMAIN Tbl(c) :
                            column \in DOMAIN Tbl(c)[id] /\ Tbl(c)[id][column] = value})]

\* client.update(record_id, fields)
client_update(c, id) ==
    IF c.oracle = <<>> THEN [c EXCEPT !.status = "budget"]
    ELSE LET e == WithExport(c)
             a == Answered(e, <<"update", id>>)
         IN IF Head(c.oracle) = "ok" /\ id \in DOMAIN Tbl(c)
            THEN [a EXCEPT !.remote[c.inst.flags.client][id] = Merge(@, Head(e.inst.flags.export)),
                           !.ret = id]
            ELSE [a EXCEPT !.raised = TRUE]

\* client.insert(fields): the remote creates a row under a new id
client_insert(c) ==
    IF c.oracle = <<>> \/ c.issued >= Len(NewIds) THEN [c EXCEPT !.status = "budget"]
    ELSE LET e == WithExport(c)
             a == Answered(e, <<"insert", NewIds[c.issued + 1]>>)
         IN IF Head(c.oracle) = "ok"
            THEN [a EXCEPT !.remote[c.inst.flags.client] =
                               Put(@, NewIds[c.issued + 1], Head(e.inst.flags.export)),
                           !.issued = @ + 1,
                           !.ret = NewIds[c.issued + 1]]
            ELSE [a EXCEPT !.raised = TRUE]

\* client.delete(record_id)
client_delete(c, id) ==
    IF c.oracle = <<>> THEN [c EXCEPT !.status = "budget"]
    ELSE LET a == Answered(c, <<"delete", id>>)
         IN IF Head(c.oracle) = "ok" /\ id \in DOMAIN Tbl(c)
            THEN [a EXCEPT !.remote[c.inst.flags.client] = Restrict(@, DOMAIN @ \ {id}),
                           !.ret = id]
            ELSE [a EXCEPT !.raised = TRUE]

\* the value v under a name: F applied to v
With(v, F(_)) == F(v)

Stopped(c) == c.status # "ok" \/ c.raised

\* the statements F that follow a call: skipped while an HTTPError propagates
\* from context c or the answers have run out
Then(c, F(_)) == IF Stopped(c) THEN c ELSE F(c)

\* self.airtable_record_id = record["id"]
SetId(r) == [r EXCEPT !.inst.airtable_record_id = r.ret]

\* AirtableMixin.check_record_exists: c.ret is "yes" or "no"
check_record_exists(c, id) ==
    With(client_get(c, id), LAMBDA g :
        IF g.status # "ok" THEN g
        ELSE [g EXCEPT !.raised = FALSE, !.ret = IF g.raised THEN "no" ELSE "yes"])

\* match_record taking the row the search lists last
match_record_last(c) ==
    LET uid == c.inst.flags.config.unique_identifier
    IN Then(client_search(c, uid[1], c.inst[uid[2]]), LAMBDA r :
           [r EXCEPT !.ret = IF Len(r.ret) > 0 THEN r.ret[Len(r.ret)] ELSE NoId])

\* AirtableMixin.match_record: c.ret is the first matching id, or ""
match_record(c) ==
    LET uid == c.inst.flags.config.unique_identifier
    IN Then(client_search(c, uid[1], c.inst[uid[2]]), LAMBDA r :
           [r EXCEPT !.ret = IF Len(r.ret) > 0 THEN r.ret[1] ELSE NoId])

RECURSIVE update_record(_, _)
RECURSIVE create_record(_)

\* AirtableMixin.create_record
create_record(c) ==
    Then(match_record(c), LAMBDA m :
        Then(IF m.ret # NoId THEN update_record(m, m.ret) ELSE client_insert(m), SetId))

\* AirtableMixin.update_record
update_record(c, airtable_record_id) ==
    LET id == IF airtable_record_id # NoId THEN airtable_record_id
              ELSE c.inst.airtable_record_id
    IN Then(check_record_exists(c, id), LAMBDA x :
           Then(IF x.ret = "yes" THEN client_update(x, id) ELSE create_record(x), SetId))

\* delete_record without its except clause: the HTTPError leaves it
delete_record_raising(c) == client_delete(c, c.inst.airtable_record_id)

\* AirtableMixin.delete_record: HTTPError is swallowed
delete_record(c) ==
    With(client_delete(c, c.inst.airtable_record_id), LAMBDA d :
        IF d.status # "ok" THEN d ELSE [d EXCEPT !.raised = FALSE])

----------------------------------------------------------------------------
(* The local store: django.db.models.Model.save / delete                   *)

\* what Model.save() raises: Advert.slug is unique (IntegrityError); a page is
\* validated on save, its slug must be free among its siblings and a page that
\* was never added to the tree has no position (ValidationError)
SaveError(store, i) ==
    IF IsPage(i.model) /\ ~i.in_tree THEN "ValidationError"
    ELSE IF \E q \in DOMAIN store :
                q # i.pk /\ Parent(store[q].model) = Parent(i.model) /\ store[q].slug = i.slug
         THEN IF IsPage(i.model) THEN "ValidationError" ELSE "IntegrityError"
         ELSE "ok"

\* the row Model.save() writes for instance i under primary key pk
Persist(store, i, pk) ==
    Put(store, pk,
        [model |-> i.model, slug |-> i.slug, title |-> i.title,
         airtable_record_id |-> i.airtable_record_id, locked |-> i.locked,
         publications |-> IF pk \in DOMAIN store THEN store[pk].publications ELSE {},
         revisions |-> IF pk \in DOMAIN store THEN store[pk].revisions ELSE 0])

\* AirtableMixin.parse_request_error on the text of an HTTPError: the parsed
\* error, or the exception the parsing raises
parse_request_error(error) ==
    IF error = EmptyError \/ error.code = 503
    THEN [raised |-> "", status_code |-> 503, type |-> "SERVICE_UNAVAILABLE"]
    ELSE IF error.code = 502
    THEN [raised |-> "", status_code |-> 502, type |-> "SERVER_ERROR"]
    ELSE IF error.body = ""
    THEN [raised |-> "IndexError", status_code |-> error.code, type |-> ""]
    ELSE IF error.body = "NOT_FOUND"
    THEN [raised |-> "", status_code |-> error.code, type |-> "NOT_FOUND"]
    ELSE [raised |-> "", status_code |-> error.code, type |-> "AUTHENTICATION_REQUIRED"]

\* the result of an operation on an instance
Done(i, store, npk, rem, iss, cs, outcome) ==
    [inst |-> i, store |-> store, nextPk |-> npk, remote |-> rem, issued |-> iss,
     calls |-> cs, outcome |-> outcome]

\* AirtableMixin.save once the push c has ended, for the instance i1 and the
\* store store1 that the first super().save() left
Pushed(c, i1, store1, npk1, pk, force_insert, error) ==
    IF c.status # "ok"
    THEN Done(c.inst, store1, npk1, c.remote, c.issued, c.calls, "budget")
    ELSE IF c.raised /\ parse_request_error(error).raised # ""
    THEN Done(c.inst, store1, npk1, c.remote, c.issued, c.calls,
              parse_request_error(error).raised)
    ELSE IF c.raised
    THEN Done([c.inst EXCEPT !.flags.has_error = TRUE], store1, npk1, c.remote,
              c.issued, c.calls, "ok")
    ELSE IF i1.airtable_record_id # NoId
    THEN Done(c.inst, store1, npk1, c.remote, c.issued, c.calls, "ok")
    ELSE IF force_insert
    THEN Done(c.inst, store1, npk1, c.remote, c.issued, c.calls, "IntegrityError")
    ELSE Done(c.inst, Persist(store1, c.inst, pk), npk1, c.remote, c.issued,
              c.calls, "ok")

\* the push of save() without the test of the instance's push_to_airtable flag
PushOnSave_whatever_the_flag(i1, store1, npk1, pk, rem, iss, force_insert, oracle, error) ==
    IF ~i1.flags.internal_push
    THEN Done(i1, store1, npk1, rem, iss, <<>>, "ok")
    ELSE Pushed(IF i1.airtable_record_id # NoId
                THEN update_record(Ctx(refresh_mapped_export_fields(i1), store1, rem,
                                       iss, oracle), NoId)
                ELSE create_record(Ctx(refresh_mapped_export_fields(i1), store1, rem,
                                       iss, oracle)),
                i1, store1, npk1, pk, force_insert, error)

\* AirtableMixin.save after the first super().save(): setup_airtable and the push
PushOnSave(i1, store1, npk1, pk, rem, iss, force_insert, oracle, error) ==
    IF ~(i1.flags.internal_push /\ i1.flags.push_to_airtable)
    THEN Done(i1, store1, npk1, rem, iss, <<>>, "ok")
    ELSE Pushed(IF i1.airtable_record_id # NoId
                THEN update_record(Ctx(refresh_mapped_export_fields(i1), store1, rem,
                                       iss, oracle), NoId)
                ELSE create_record(Ctx(refresh_mapped_export_fields(i1), store1, rem,
                                       iss, oracle)),
                i1, store1, npk1, pk, force_insert, error)

\* save() with the push ahead of the first super().save(): the remote is called
\* for an instance that is not stored yet
save_push_first(i, store, npk, rem, iss, force_insert, oracle, error) ==
    LET pk == IF i.pk = 0 THEN npk ELSE i.pk
    IN IF SaveError(store, i) # "ok"
       THEN Done(i, store, npk, rem, iss, <<>>, SaveError(store, i))
       ELSE With(PushOnSave(setup_airtable(i), store, npk, pk, rem, iss, FALSE, oracle,
                            error),
                 LAMBDA r : [r EXCEPT !.store = Persist(r.store, r.inst, pk),
                                      !.inst.pk = pk,
                                      !.nextPk = IF i.pk = 0 THEN npk + 1 ELSE npk])

\* AirtableMixin.save(*args, **kwargs); force_insert is the keyword that
\* Model.objects.create() passes, an INSERT of a pk that exists is an IntegrityError;
\* error is the text of the HTTPErrors the remote answers with
save(i, store, npk, rem, iss, force_insert, oracle, error) ==
    LET pk == IF i.pk = 0 THEN npk ELSE i.pk
    IN IF SaveError(store, i) # "ok"
       THEN Done(i, store, npk, rem, iss, <<>>, SaveError(store, i))
       ELSE IF force_insert /\ i.pk \in DOMAIN store
            THEN Done(i, store, npk, rem, iss, <<>>, "IntegrityError")
       ELSE PushOnSave(setup_airtable([i EXCEPT !.pk = pk]), Persist(store, i, pk),
                       IF i.pk = 0 THEN npk + 1 ELSE npk, pk, rem, iss,
                       force_insert, oracle, error)

\* AirtableMixin.delete once the remote delete c has ended
Deleted(c, store, gone, npk) ==
    IF c.status # "ok"
    THEN Done(c.inst, store, npk, c.remote, c.issued, c.calls, "budget")
    ELSE IF c.raised
    THEN Done(c.inst, store, npk, c.remote, c.issued, c.calls, "HTTPError")
    ELSE Done(c.inst, gone, npk, c.remote, c.issued, c.calls, "ok")

\* AirtableMixin.delete
delete(i, store, npk, rem, iss, oracle) ==
    LET i1 == setup_airtable(i)
        gone == Restrict(store, DOMAIN store \ {i.pk})
    IN IF i1.flags.push_to_airtable /\ i1.flags.internal_push /\ i1.airtable_record_id # NoId
       THEN Deleted(delete_record(Ctx(i1, store, rem, iss, oracle)), store, gone, npk)
       ELSE Done(i1, gone, npk, rem, iss, <<>>, "ok")

----------------------------------------------------------------------------
(* Initial states *)

TheBase == "B1"
TheTable == "T1"

PushTable == <<TheBase, TheTable>>

AdvertSettings ==
    [AIRTABLE_BASE_KEY |-> TheBase, AIRTABLE_TABLE_NAME |-> TheTable,
     AIRTABLE_UNIQUE_IDENTIFIER |-> <<"Slug", "slug">>]

\* settings entries of Advert that lack one of the values setup_airtable needs
PartialSettings ==
    {[AdvertSettings EXCEPT !.AIRTABLE_BASE_KEY = ""],
     [AdvertSettings EXCEPT !.AIRTABLE_TABLE_NAME = ""],
     [AIRTABLE_BASE_KEY |-> TheBase, AIRTABLE_TABLE_NAME |-> TheTable]}

\* tests/settings.py, with the global switch either way, and the same with no
\* API key, with an incomplete entry for Advert, and with no entry for Advert
SettingsChoices ==
    {[WAGTAIL_AIRTABLE_ENABLED |-> e, AIRTABLE_API_KEY |-> "keyWoWoWoWoW",
      AIRTABLE_IMPORT_SETTINGS |-> [Advert |-> AdvertSettings]] : e \in BOOLEAN}
    \cup {[WAGTAIL_AIRTABLE_ENABLED |-> TRUE, AIRTABLE_API_KEY |-> "",
           AIRTABLE_IMPORT_SETTINGS |-> [Advert |-> AdvertSettings]]}
    \cup {[WAGTAIL_AIRTABLE_ENABLED |-> TRUE, AIRTABLE_API_KEY |-> "keyWoWoWoWoW",
           AIRTABLE_IMPORT_SETTINGS |-> [Advert |-> ms]] : ms \in PartialSettings}
    \cup {[WAGTAIL_AIRTABLE_ENABLED |-> TRUE, AIRTABLE_API_KEY |-> "keyWoWoWoWoW",
           AIRTABLE_IMPORT_SETTINGS |-> [SimplePage |-> AdvertSettings]]}

StoredRecords(model, titles, lockeds) ==
    [model : {model}, slug : Slugs, title : titles, publications : {{}},
     airtable_record_id : {NoId} \cup RemoteIds, locked : lockeds, revisions : {0}]

\* local stores holding at most one record
SmallStores(recs) == {<<>>} \cup {<<r>> : r \in recs}

\* remote tables over the pre-existing ids, each row drawn from rows
Tables(rows) ==
    UNION {[S -> rows] : S \in SUBSET RemoteIds}

Idle == [phase |-> "idle"]

InitPush ==
    /\ settings \in SettingsChoices
    /\ db \in SmallStores(StoredRecords("Advert", {"x"}, {FALSE}))
    /\ nextPk = Len(db) + 1
    /\ remote \in {[t \in {<<TheBase, TheTable>>} |-> tb] :
                      tb \in Tables([Title : {"x"}, Slug : Slugs, Publications : {{}}])}
    /\ issued = 0
    /\ inst = NoInst
    /\ calls = <<>>
    /\ last = [op |-> "none"]
    /\ ops = 0
    /\ imp = Idle

----------------------------------------------------------------------------
(* Operations on one instance *)

\* Advert.objects.get(pk=pk)
Load ==
    /\ inst = NoInst
    /\ \E pk \in DOMAIN db : inst' = Loaded(pk)
    /\ calls' = <<>>
    /\ last' = [op |-> "get"]
    /\ UNCHANGED <<settings, db, nextPk, remote, issued, ops, imp>>

\* Advert(slug=..., title=...), SimilarToAdvert(slug=..., title=...)
Construct ==
    /\ inst = NoInst
    /\ \E sl \in Slugs, model \in {"Advert", "SimilarToAdvert"} :
          inst' = Constructed(model, [slug |-> sl, title |-> "x"])
    /\ calls' = <<>>
    /\ last' = [op |-> "construct"]
    /\ UNCHANGED <<settings, db, nextPk, remote, issued, ops, imp>>

\* instance.title = ..., instance.push_to_airtable = ...
SetAttr ==
    /\ inst # NoInst
    /\ \/ \E t \in Titles : t # inst.title /\ inst' = [inst EXCEPT !.title = t]
       \/ inst' = [inst EXCEPT !.flags.push_to_airtable = ~@]
    /\ calls' = <<>>
    /\ last' = [op |-> "setattr"]
    /\ UNCHANGED <<settings, db, nextPk, remote, issued, ops, imp>>

\* instance.setup_airtable(), also run by the property is_airtable_enabled
Setup ==
    /\ inst # NoInst
    /\ inst' = setup_airtable(inst)
    /\ calls' = <<>>
    /\ last' = [op |-> "setup", pre |-> inst, settings |-> settings]
    /\ UNCHANGED <<settings, db, nextPk, remote, issued, ops, imp>>

\* the settings change while the instance lives (override_settings, a new deployment)
ChangeSettings ==
    /\ ops < MaxOps
    /\ inst # NoInst
    /\ settings' \in SettingsChoices \ {settings}
    /\ calls' = <<>>
    /\ last' = [op |-> "settings"]
    /\ ops' = ops + 1
    /\ UNCHANGED <<db, nextPk, remote, issued, inst, imp>>

\* the answers of the remote to the calls of one operation: one per call made,
\* and MaxCalls of them when the operation would go on calling
Oracles == UNION {[1..n -> Responses] : n \in 0..MaxCalls}

Consumed(r, oracle) ==
    /\ Len(r.calls) = Len(oracle)
    /\ r.outcome = "budget" => Len(oracle) = MaxCalls

\* the except clause of save() ran: the last call raised an HTTPError that
\* check_record_exists did not swallow
Handled(r, oracle) ==
    /\ r.calls # <<>>
    /\ r.outcome # "budget"
    /\ oracle[Len(r.calls)] = "err"
    /\ r.calls[Len(r.calls)][1] \in {"search", "update", "insert"}

\* the texts the HTTPError of operation r may carry: any, when save() parses it
ErrorTexts(r, oracle) == IF Handled(r, oracle) THEN ErrorMessages ELSE {DefaultError}

\* the effects of operation op, which ended as r under the answers of oracle
Apply(r, oracle, op) ==
    /\ Consumed(r, oracle)
    /\ inst' = r.inst
    /\ db' = r.store
    /\ nextPk' = r.nextPk
    /\ remote' = r.remote
    /\ issued' = r.issued
    /\ calls' = r.calls
    /\ last' = Merge(op, [outcome |-> r.outcome, pre |-> inst, store |-> db,
                          remote |-> remote, answers |-> oracle])

\* instance.save(), or Advert.objects.create() for force_insert
Save ==
    /\ ops < MaxOps
    /\ inst # NoInst
    /\ \E force_insert \in BOOLEAN, oracle \in Oracles :
          With(save(inst, db, nextPk, remote, issued, force_insert, oracle, DefaultError),
               LAMBDA r :
                  /\ Consumed(r, oracle)
                  /\ \E error \in ErrorTexts(r, oracle) :
                        Apply(save(inst, db, nextPk, remote, issued, force_insert,
                                   oracle, error),
                              oracle, [op |-> "save", force_insert |-> force_insert,
                                       error |-> error]))
    /\ ops' = ops + 1
    /\ UNCHANGED <<settings, imp>>

\* instance.delete()
Delete ==
    /\ ops < MaxOps
    /\ inst # NoInst
    /\ inst.pk \in DOMAIN db
    /\ \E oracle \in Oracles :
          Apply(delete(inst, db, nextPk, remote, issued, oracle), oracle,
                [op |-> "delete"])
    /\ ops' = ops + 1
    /\ UNCHANGED <<settings, imp>>

NextPush == Load \/ Construct \/ SetAttr \/ Save \/ Delete

SpecPush == InitPush /\ [][NextPush]_vars

\* the life of one instance under settings that change: a store of at most one
\* Advert, a remote table of at most one row
InitSetup ==
    /\ settings \in SettingsChoices
    /\ db \in SmallStores({r \in StoredRecords("Advert", {"x"}, {FALSE}) : r.slug = "a"})
    /\ nextPk = Len(db) + 1
    /\ remote \in {[t \in {PushTable} |-> tb] :
                      tb \in {<<>>} \cup [{"rec1"} -> [Title : {"x"}, Slug : {"a"},
                                                       Publications : {{}}]]}
    /\ issued = 0
    /\ inst = NoInst
    /\ calls = <<>>
    /\ last = [op |-> "none"]
    /\ ops = 0
    /\ imp = Idle

NextSetup == Load \/ Construct \/ Setup \/ ChangeSettings \/ Save \/ Delete

SpecSetup == InitSetup /\ [][NextSetup]_vars

----------------------------------------------------------------------------
(* Bulk import: what both importers share                                  *)

None == "<None>"       \* Python's None where a string may stand

\* the remote answers every call an import makes
OkOracle == [k \in 1..MaxCalls |-> "ok"]

\* the columns of a table in the order a row's fields arrive in
ColumnOrder == <<"Slug", "Title", "Publications", "Name">>

\* convert_mapped_fields that keeps an unmapped column under its own name
convert_mapped_fields_keeping_all(record_fields_dict, mapped_fields_dict) ==
    [f \in {IF k \in DOMAIN mapped_fields_dict THEN mapped_fields_dict[k] ELSE k :
                k \in DOMAIN record_fields_dict} |->
        record_fields_dict[CHOOSE k \in DOMAIN record_fields_dict :
                              f = IF k \in DOMAIN mapped_fields_dict
                                  THEN mapped_fields_dict[k] ELSE k]]

\* convert_mapped_fields: Airtable columns renamed to model fields, unmapped
\* dropped; of two columns mapped to one field the dict keeps the later one
convert_mapped_fields(record_fields_dict, mapped_fields_dict) ==
    LET keys == DOMAIN record_fields_dict \cap DOMAIN mapped_fields_dict
        at(k) == CHOOSE n \in DOMAIN ColumnOrder : ColumnOrder[n] = k
    IN [f \in {mapped_fields_dict[k] : k \in keys} |->
           record_fields_dict[CHOOSE k \in keys :
              /\ mapped_fields_dict[k] = f
              /\ \A j \in keys : mapped_fields_dict[j] = f => at(j) <= at(k)]]

\* serializer.is_valid() of tests/serializers.py: slug and title are required
is_valid(data) == {"slug", "title"} \subseteq DOMAIN data

\* field_is_m2m: publications is the ManyToManyField of the model
field_is_m2m(field_name) == field_name = "publications"

\* get_data_for_new_model: the data with the record id, without any pk or id
get_data_for_new_model(data, record_id) ==
    LET d == Put(data, "airtable_record_id", record_id)
    IN Restrict(d, DOMAIN d \ {"pk", "id"})

\* QuerySet.first(): the row with the lowest pk, 0 for None
First(pks) == IF pks = {} THEN 0 ELSE CHOOSE p \in pks : \A q \in pks : p <= q

\* Model.objects.filter(**{field: value}): the pks of the model's matching rows
Filter(store, model, field, value) ==
    {pk \in DOMAIN store : store[pk].model = model /\ store[pk][field] = value}

\* fields.get(column, None)
FieldOrNone(fields, column) == IF column \in DOMAIN fields THEN fields[column] ELSE None

\* setattr(instance, field, value) for every field of data that is not m2m
SetFields(i, data) ==
    [i EXCEPT !.slug = IF "slug" \in DOMAIN data THEN data["slug"] ELSE @,
              !.title = IF "title" \in DOMAIN data THEN data["title"] ELSE @]

\* Page.save_revision()
save_revision(store, pk) == [store EXCEPT ![pk].revisions = @ + 1]

\* the state an import works on: the store, the remote, the run's bookkeeping,
\* the pks saved, the number of save() calls and the remote calls made while
\* handling the current row, the exception that is propagating ("" for none)
\* and the last return value
Work(run) ==
    [store |-> db, nextPk |-> nextPk, remote |-> remote, issued |-> issued,
     records_used |-> run.records_used, created |-> run.created,
     updated |-> run.updated, skipped |-> run.skipped,
     calls |-> <<>>, saved |-> {}, tried |-> 0, raised |-> "", ret |-> FALSE,
     result |-> <<>>]

\* the import state w after instance i was saved with result r; w.saved gains
\* the pk when the save wrote the record
Saved(w, i, r) ==
    [w EXCEPT !.store = r.store, !.nextPk = r.nextPk, !.remote = r.remote,
              !.issued = r.issued, !.calls = @ \o r.calls, !.tried = @ + 1,
              !.saved = IF SaveError(w.store, i) = "ok" THEN @ \cup {r.inst.pk} ELSE @,
              !.raised = IF r.outcome = "ok" THEN "" ELSE r.outcome]

\* instance.save() called by an importer: AirtableMixin.save with the remote up
SaveIn(w, i) ==
    Saved(w, i, save(i, w.store, w.nextPk, w.remote, w.issued, FALSE, OkOracle,
                     DefaultError))

----------------------------------------------------------------------------
(* AirtableModelImporter, wagtail_airtable/importer.py                     *)

\* AirtableModelImporter.update_object
update_object(w, pk, record_id, data) ==
    LET model == w.store[pk].model
        obj == LoadedFrom(w.store, pk)
        set == IF "publications" \in DOMAIN data
               THEN [w EXCEPT !.store[pk].publications = data["publications"]]
               ELSE w
        changed == SetFields(obj, data)
    IN IF IsPage(model) /\ obj.locked THEN [w EXCEPT !.ret = FALSE]
       ELSE IF IsPage(model) /\ changed = obj THEN [set EXCEPT !.ret = FALSE]
       ELSE With(SaveIn(set, [changed EXCEPT !.flags.push_to_airtable = FALSE,
                                              !.airtable_record_id = record_id]),
                 LAMBDA s :
                    IF s.raised # "" THEN s
                    ELSE IF IsPage(model)
                         THEN [s EXCEPT !.store = save_revision(@, pk), !.ret = TRUE]
                    ELSE [s EXCEPT !.ret = TRUE])

\* AirtableModelImporter.create_object
create_object(w, model, parent_page, data, record_id) ==
    LET data_for_new_model == get_data_for_new_model(data, record_id)
        m2m == {f \in DOMAIN data_for_new_model : field_is_m2m(f)}
        non_m2m_data == Restrict(data_for_new_model, DOMAIN data_for_new_model \ m2m)
    IN With(SaveIn(w, [Constructed(model, non_m2m_data) EXCEPT
                          !.flags.push_to_airtable = FALSE, !.in_tree = parent_page]),
            LAMBDA s :
               IF s.raised # "" THEN s
               ELSE IF parent_page THEN [s EXCEPT !.store = save_revision(@, w.nextPk)]
               ELSE IF m2m = {} THEN s
               ELSE [s EXCEPT !.store[w.nextPk].publications =
                                  data_for_new_model["publications"]])

\* AirtableModelImporter.get_existing_instance: a pk, 0 for None
get_existing_instance(store, model, field_name, record_id, unique_identifier) ==
    LET existing_by_record_id == First(Filter(store, model, "airtable_record_id", record_id))
    IN IF existing_by_record_id # 0 THEN existing_by_record_id
       ELSE First(Filter(store, model, field_name, unique_identifier))

\* the pages of the site that are not imported records; PARENT_PAGE_ID names one
Pages == {"root"}

\* AirtableImportResult: errors is "" for none
AirtableImportResult(record_id, new, errors) ==
    [record_id |-> record_id, new |-> new, errors |-> errors]

\* transaction.atomic around process_record: a database error marks the
\* transaction for rollback although the exception is caught inside it
Atomic(w, r) ==
    IF r.raised = "IntegrityError"
    THEN [r EXCEPT !.store = w.store, !.nextPk = w.nextPk, !.saved = {}]
    ELSE r

\* process_record returning after update_object or create_object ended as r
Returned(r, record_id, new) ==
    [r EXCEPT !.raised = "",
              !.result = AirtableImportResult(record_id, new,
                            IF r.raised # "" THEN "exception" ELSE "")]

\* AirtableModelImporter.process_record: w.result is the result it returns
process_record(w, model, parent_page, record) ==
    LET record_id == record.id
        fields == record.fields
        mapped_import_fields == convert_mapped_fields(fields, map_import_fields)
        uid == UniqueIdentifier(ModelSettings(model))
        unique_identifier == FieldOrNone(fields, uid[1])
    IN With(get_existing_instance(w.store, model, uid[2], record_id, unique_identifier),
            LAMBDA obj :
               IF ~is_valid(mapped_import_fields)
               THEN [w EXCEPT !.result =
                                  AirtableImportResult(record_id, obj # 0, "invalid")]
               ELSE IF obj # 0
               THEN Returned(Atomic(w, update_object(w, obj, record_id,
                                                     mapped_import_fields)),
                             record_id, FALSE)
               ELSE Returned(Atomic(w, create_object(w, model, parent_page,
                                                     mapped_import_fields, record_id)),
                             record_id, TRUE))

----------------------------------------------------------------------------
(* Importer, wagtail_airtable/management/commands/import_airtable.py       *)

\* records_used.append(record_id); return True
Used(w, record_id) == [w EXCEPT !.records_used = Append(@, record_id), !.ret = TRUE]

\* the body both Importer.update_object and update_object_by_uniq_col_name
\* run on a found instance when the data is valid
SetAttrsAndSave(w, pk, record_id, data) ==
    LET model == w.store[pk].model
        obj == LoadedFrom(w.store, pk)
        added == IF "publications" \in DOMAIN data
                 THEN [w EXCEPT !.store[pk].publications = @ \cup data["publications"]]
                 ELSE w
    IN IF IsPage(model) /\ obj.locked
       THEN Used([added EXCEPT !.skipped = @ + 1], record_id)
       ELSE With(SaveIn(added, [SetFields(obj, data) EXCEPT
                                   !.airtable_record_id = record_id,
                                   !.flags.push_to_airtable = FALSE]),
                 LAMBDA s :
                    IF s.raised = "ValidationError"
                    THEN [s EXCEPT !.raised = "", !.skipped = @ + 1, !.ret = FALSE]
                    ELSE IF s.raised # "" THEN s
                    ELSE IF IsPage(model)
                         THEN Used([s EXCEPT !.store = save_revision(@, pk),
                                             !.updated = @ + 1], record_id)
                    ELSE Used([s EXCEPT !.updated = @ + 1], record_id))

\* Importer.update_object
Importer_update_object(w, pk, record_id, data) ==
    IF is_valid(data) THEN SetAttrsAndSave(w, pk, record_id, data)
    ELSE [w EXCEPT !.ret = FALSE]

\* Importer.update_object_by_uniq_col_name
update_object_by_uniq_col_name(w, model, field_name, unique_identifier, record_id, data) ==
    LET instance == First(Filter(w.store, model, field_name, unique_identifier))
    IN IF unique_identifier \in {None, ""}
       THEN [w EXCEPT !.skipped = @ + 1, !.ret = FALSE]
       ELSE IF instance = 0 THEN [w EXCEPT !.ret = FALSE]
       ELSE IF is_valid(data) THEN SetAttrsAndSave(w, instance, record_id, data)
       ELSE [w EXCEPT !.skipped = @ + 1, !.ret = FALSE]

\* Importer.get_data_for_new_model: the raw mapped fields when the data is invalid
Importer_get_data_for_new_model(mapped_import_fields, record_id) ==
    get_data_for_new_model(mapped_import_fields, record_id)

\* Importer.run, MultipleObjectsReturned: every further record holding the row's
\* id has its id emptied and is saved
RECURSIVE ClearDuplicates(_, _)
ClearDuplicates(w, objs) ==
    IF objs = {} \/ w.raised # "" THEN w
    ELSE LET ob == First(objs)
             cleared == [LoadedFrom(w.store, ob) EXCEPT !.airtable_record_id = ""]
         IN ClearDuplicates(SaveIn(w, cleared), objs \ {ob})

\* Importer.run: the creation of a new object for a record that matched nothing
CreateNew(w, model, ms, record_id, mapped_import_fields) ==
    LET used == IF IsPage(model) THEN [w EXCEPT !.records_used = Append(@, record_id)]
                ELSE w
        parent_page_id_setting == IF IsPage(model) THEN Get(ms, "PARENT_PAGE_ID") ELSE ""
        parent_page == parent_page_id_setting # ""
        data_for_new_model == Importer_get_data_for_new_model(mapped_import_fields, record_id)
    IN IF parent_page /\ parent_page_id_setting \notin Pages THEN used
       ELSE IF \E f \in DOMAIN data_for_new_model : field_is_m2m(f) THEN used
       ELSE With(SaveIn(used, [Constructed(model, data_for_new_model) EXCEPT
                                  !.in_tree = parent_page]),
                 LAMBDA s :
                    IF s.raised = "budget" THEN s
                    ELSE IF s.raised # "" THEN [used EXCEPT !.tried = s.tried]
                    ELSE IF parent_page
                         THEN [s EXCEPT !.store = save_revision(@, used.nextPk),
                                        !.created = @ + 1]
                    ELSE [s EXCEPT !.created = @ + 1])

\* Importer.run: the body of the loop over the records of one model
ImportRecord(w, model, record) ==
    LET ms == ModelSettings(model)
        uid == UniqueIdentifier(ms)
        record_id == record.id
        record_fields == record.fields
        mapped_import_fields == convert_mapped_fields(record_fields, map_import_fields)
        objs == Filter(w.store, model, "airtable_record_id", record_id)
        obj == First(objs)
        unique_identifier == FieldOrNone(record_fields, uid[1])
    IN IF record_id \in Range(w.records_used) THEN w
       ELSE With(ClearDuplicates(w, objs \ {obj}), LAMBDA c :
            IF c.raised # "" THEN c
            ELSE With(IF obj # 0
                      THEN Importer_update_object(c, obj, record_id, mapped_import_fields)
                      ELSE [c EXCEPT !.ret = FALSE],
                      LAMBDA a :
                 IF a.raised # "" \/ a.ret THEN a
                 ELSE With(update_object_by_uniq_col_name(a, model, uid[2],
                               unique_identifier, record_id, mapped_import_fields),
                           LAMBDA b :
                      IF b.raised # "" \/ b.ret THEN b
                      ELSE CreateNew(b, model, ms, record_id, mapped_import_fields))))

----------------------------------------------------------------------------
(* Bulk import runs *)

OtherTable == "T2"
OtherBase == "B2"
Clients == {<<TheBase, TheTable>>, <<TheBase, OtherTable>>, <<OtherBase, TheTable>>}

\* the settings entry of the page type: its table, and PARENT_PAGE_ID when set
PageSettings(client, parent) ==
    LET ms == [AIRTABLE_BASE_KEY |-> client[1], AIRTABLE_TABLE_NAME |-> client[2],
               AIRTABLE_UNIQUE_IDENTIFIER |-> <<"Slug", "slug">>]
    IN IF parent = "" THEN ms ELSE Put(ms, "PARENT_PAGE_ID", parent)

ImportSettings(enabled, client, parent) ==
    [WAGTAIL_AIRTABLE_ENABLED |-> enabled, AIRTABLE_API_KEY |-> "keyWoWoWoWoW",
     AIRTABLE_IMPORT_SETTINGS |->
         [Advert |-> AdvertSettings, SimplePage |-> PageSettings(client, parent)]]

Scenario(importer, models, sets) == [importer |-> importer, models |-> models, settings |-> sets]

\* who imports what under which settings: either importer on either model, and
\* the command on both models, which share a table, a table name, or a base
Scenarios ==
    {Scenario("AirtableModelImporter", <<"Advert">>, ImportSettings(TRUE, PushTable, "root"))}
    \cup {Scenario("AirtableModelImporter", <<"SimplePage">>, ImportSettings(TRUE, PushTable, p)) :
             p \in {"", "root", "gone"}}
    \cup {Scenario("Importer", <<"Advert">>, ImportSettings(e, PushTable, "root")) :
             e \in BOOLEAN}
    \cup {Scenario("Importer", <<"SimplePage">>, ImportSettings(TRUE, PushTable, p)) :
             p \in {"", "root", "gone"}}
    \cup {Scenario("Importer", <<"Advert", "SimplePage">>, ImportSettings(TRUE, c, "root")) :
             c \in Clients}

\* rows of the remote table: Slug always, Title unless the row is invalid,
\* Publications on some
ImportRows ==
    [Slug : Slugs] \cup [Slug : Slugs, Title : {"x"}]
                   \cup [Slug : Slugs, Title : {"x"}, Publications : {Pubs}]

\* local stores of one model: no record, one record, or two records of which
\* the second is unlocked and titled "y"
ImportStores(model) ==
    LET lockeds == IF IsPage(model) THEN BOOLEAN ELSE {FALSE}
        firsts == StoredRecords(model, Titles, lockeds)
        seconds == StoredRecords(model, {"y"}, {FALSE})
    IN {<<>>} \cup {<<r>> : r \in firsts}
              \cup {p \in firsts \X seconds : p[1].slug # p[2].slug}

NoRun ==
    [phase |-> "idle", run |-> 0, mi |-> 0, all_records |-> <<>>, ri |-> 0,
     cached_records |-> <<>>, records_used |-> <<>>, created |-> 0, updated |-> 0,
     skipped |-> 0, fetched |-> <<>>, prev |-> "none", settled |-> {}]

InitImport ==
    /\ \E sc \in Scenarios :
          /\ settings = sc.settings
          /\ imp = Merge(NoRun, [importer |-> sc.importer, models |-> sc.models])
          /\ db \in ImportStores(sc.models[1])
    /\ nextPk = Len(db) + 1
    /\ \E tb \in Tables(ImportRows) :
          remote = [c \in Clients |-> IF c = PushTable THEN tb ELSE <<>>]
    /\ issued = 0
    /\ inst = NoInst
    /\ calls = <<>>
    /\ last = [op |-> "none"]
    /\ ops = 0

\* client.get_all() / client.get_iter() when the remote answers: the rows of
\* the table as records
get_all(client) ==
    LET ids == Listing(remote[client])
    IN [k \in 1..Len(ids) |-> [id |-> ids[k], fields |-> remote[client][ids[k]]]]

\* a new run: Importer(models).run() of the command, or AirtableModelImporter(model),
\* whose constructor looks the parent page up; imp.prev tells how the run before ended
StartRun ==
    /\ imp.phase \in {"idle", "aborted"}
    /\ imp.run < MaxRuns
    /\ LET parent == Get(ModelSettings(imp.models[1]), "PARENT_PAGE_ID")
           fails == /\ imp.importer = "AirtableModelImporter"
                    /\ parent # ""
                    /\ parent \notin Pages
       IN imp' = Merge(imp, [NoRun EXCEPT
                                !.run = imp.run + 1,
                                !.phase = IF fails THEN "aborted" ELSE "models",
                                !.prev = IF imp.run = 0 THEN "none"
                                         ELSE IF imp.phase = "idle" THEN "returned"
                                         ELSE "aborted"])
    /\ last' = [op |-> "start"]
    /\ calls' = <<>>
    /\ UNCHANGED <<settings, db, nextPk, remote, issued, inst, ops>>

RowsDone == imp.phase = "rows" /\ imp.ri = Len(imp.all_records)

\* Importer.run up to the loop over the records of the next model, with
\* get_or_set_cached_records; AirtableModelImporter.run opening its iteration.
\* The fetch raises HTTPError when the remote fails, and neither run catches it.
NextModel ==
    /\ imp.phase = "models" \/ RowsDone
    /\ imp.mi < Len(imp.models)
    /\ \E answer \in Responses :
       LET model == imp.models[imp.mi + 1]
           client == ClientOf(ModelSettings(model))
           table_name == client[2]
           hit == /\ imp.importer = "Importer"
                  /\ table_name \in DOMAIN imp.cached_records
                  /\ imp.cached_records[table_name] # <<>>
           failed == ~hit /\ answer = "err"
           all_records == IF hit THEN imp.cached_records[table_name] ELSE get_all(client)
       IN /\ hit => answer = "ok"
          /\ imp' = IF failed
                     THEN [imp EXCEPT !.phase = "aborted",
                                      !.fetched = Append(@, client)]
                     ELSE [imp EXCEPT
                        !.phase = "rows", !.mi = @ + 1, !.ri = 0,
                        !.all_records = all_records,
                        !.cached_records = IF hit \/ imp.importer # "Importer" THEN @
                                           ELSE Put(@, table_name, all_records),
                        !.fetched = IF hit THEN @ ELSE Append(@, client)]
          /\ calls' = IF hit THEN <<>> ELSE <<<<"get_all", client>>>>
          /\ last' = [op |-> "fetch", model |-> model, hit |-> hit, failed |-> failed]
    /\ UNCHANGED <<settings, db, nextPk, remote, issued, inst, ops>>

\* the effects of processing record, which left the import state w
ApplyRow(w, model, record) ==
    /\ w.raised # "budget"
    /\ db' = w.store
    /\ nextPk' = w.nextPk
    /\ remote' = w.remote
    /\ issued' = w.issued
    /\ calls' = w.calls
    /\ imp' = [imp EXCEPT !.ri = @ + 1,
                          !.phase = IF w.raised # "" THEN "aborted" ELSE @,
                          !.records_used = w.records_used,
                          !.created = w.created, !.updated = w.updated,
                          !.skipped = w.skipped,
                          !.settled = IF w.created > imp.created \/ w.updated > imp.updated
                                      THEN @ \cup {record.id} ELSE @]
    /\ last' = [op |-> "row", model |-> model, record |-> record, store |-> db,
                remote |-> remote, before |-> imp, saved |-> w.saved, tried |-> w.tried,
                raised |-> w.raised, result |-> w.result]

\* one record of the table: the loop body of Importer.run, or process_record
Row ==
    /\ imp.phase = "rows"
    /\ imp.ri < Len(imp.all_records)
    /\ LET model == imp.models[imp.mi]
           record == imp.all_records[imp.ri + 1]
           parent == Get(ModelSettings(model), "PARENT_PAGE_ID")
       IN ApplyRow(IF imp.importer = "Importer"
                   THEN ImportRecord(Work(imp), model, record)
                   ELSE process_record(Work(imp), model, parent # "", record),
                   model, record)
    /\ UNCHANGED <<settings, inst, ops>>

\* the run returns: the command reports created, skipped and updated
Finish ==
    /\ RowsDone \/ imp.phase = "models"
    /\ imp.mi = Len(imp.models)
    /\ imp' = [imp EXCEPT !.phase = "idle"]
    /\ last' = [op |-> "finish"]
    /\ calls' = <<>>
    /\ UNCHANGED <<settings, db, nextPk, remote, issued, inst, ops>>

NextImport == StartRun \/ NextModel \/ Row \/ Finish

SpecImport == InitImport /\ [][NextImport]_vars

\* the settings entry of Advert when the unique identifier is the column
\* "Name", held locally by the field title
NameSettings == [AdvertSettings EXCEPT !.AIRTABLE_UNIQUE_IDENTIFIER = <<"Name", "title">>]

\* rows of the remote table, valid for the serializer, whose unique-identifier
\* column is missing, empty or filled
NameRows ==
    [Slug : Slugs, Title : {"x"}] \cup [Slug : Slugs, Title : {"x"}, Name : {"", "y"}]

\* local stores of at most two Adverts, of which the first may have an empty title
NameStores ==
    LET firsts == StoredRecords("Advert", {"", "x"}, {FALSE})
        seconds == StoredRecords("Advert", {"y"}, {FALSE})
    IN {<<>>} \cup {<<r>> : r \in firsts}
              \cup {p \in firsts \X seconds : p[1].slug # p[2].slug}

\* an import of Advert, by either importer, under NameSettings
InitName ==
    /\ settings = [WAGTAIL_AIRTABLE_ENABLED |-> TRUE, AIRTABLE_API_KEY |-> "keyWoWoWoWoW",
                   AIRTABLE_IMPORT_SETTINGS |-> [Advert |-> NameSettings]]
    /\ \E importer \in {"AirtableModelImporter", "Importer"} :
          imp = Merge(NoRun, [importer |-> importer, models |-> <<"Advert">>])
    /\ db \in NameStores
    /\ nextPk = Len(db) + 1
    /\ \E tb \in Tables(NameRows) :
          remote = [c \in Clients |-> IF c = PushTable THEN tb ELSE <<>>]
    /\ issued = 0
    /\ inst = NoInst
    /\ calls = <<>>
    /\ last = [op |-> "none"]
    /\ ops = 0

SpecName == InitName /\ [][NextImport]_vars

----------------------------------------------------------------------------
(* Utilities: wagtail_airtable/utils.py, the reset command, and the        *)
(* functions of the mixin and the importers applied to given arguments     *)

\* the model classes of tests/models.py
Models == {"Advert", "SimplePage", "SimilarToAdvert", "ModelNotUsed"}

\* identifiers a command may be given, as label.split(".") yields them:
\* "tests.Advert" is <<"tests", "Advert">>, "Nope" is <<"Nope">>
Labels ==
    {<<"tests", m>> : m \in Models} \cup {<<"tests", "Nope">>, <<"Advert">>, <<"Nope">>}

\* get_model_for_path: the model class of the content type, None when there is none
get_model_for_path(model_path) ==
    IF model_path[1] = "tests" /\ model_path[2] \in Models THEN model_path[2] ELSE None

\* settings.get("AIRTABLE_IMPORT_ALLOWED", True) of a settings entry
ImportAllowed(ms) ==
    "AIRTABLE_IMPORT_ALLOWED" \in DOMAIN ms => ms["AIRTABLE_IMPORT_ALLOWED"]

\* get_validated_models: the models of the labels, or the exception raised
get_validated_models(models) ==
    LET labels == SelectSeq(models, LAMBDA label : Len(label) > 1)
        validated_models == [k \in DOMAIN labels |-> get_model_for_path(labels[k])]
    IN IF None \in Range(validated_models)
       THEN [raised |-> "ImproperlyConfigured", models |-> <<>>]
       ELSE IF \E k \in DOMAIN validated_models :
                  validated_models[k] \notin DOMAIN settings.AIRTABLE_IMPORT_SETTINGS
       THEN [raised |-> "AttributeError", models |-> <<>>]
       ELSE [raised |-> "",
             models |-> SelectSeq(validated_models,
                                  LAMBDA model : ImportAllowed(ModelSettings(model)))]

\* Command.get_all_models of reset_local_airtable_records: the models of the
\* entries that allow the import, and the EXTRA_SUPPORTED_MODELS of those
Command_get_all_models ==
    UNION {IF ImportAllowed(ModelSettings(label))
           THEN {label} \cup
                IF "EXTRA_SUPPORTED_MODELS" \in DOMAIN ModelSettings(label)
                THEN {get_model_for_path(model_path) :
                         model_path \in Range(ModelSettings(label)["EXTRA_SUPPORTED_MODELS"])}
                ELSE {}
           ELSE {} : label \in DOMAIN settings.AIRTABLE_IMPORT_SETTINGS}

\* Command.handle of reset_local_airtable_records: model.objects.update(
\* airtable_record_id="") on each model, which reaches the rows of its subclasses
handle(store, models) ==
    [pk \in DOMAIN store |->
        IF store[pk].model \in models \/ Parent(store[pk].model) \in models
        THEN [store[pk] EXCEPT !.airtable_record_id = NoId]
        ELSE store[pk]]

\* values of AIRTABLE_UNIQUE_IDENTIFIER: a string, a dict as the list of its
\* items, None, and values of other types
UniqueIdentifierSpecs ==
    {[type |-> "str", value |-> "slug"],
     [type |-> "dict", items |-> <<<<"Slug", "slug">>>>],
     [type |-> "dict", items |-> <<<<"Name", "title">>, <<"Slug", "slug">>>>],
     [type |-> "dict", items |-> <<>>],
     [type |-> "NoneType"], [type |-> "list"], [type |-> "int"]}

\* get_column_to_field_names, of importer.py and of the Importer alike
get_column_to_field_names(airtable_unique_identifier) ==
    IF airtable_unique_identifier.type = "str"
    THEN [raised |-> "", column |-> airtable_unique_identifier.value,
          field |-> airtable_unique_identifier.value]
    ELSE IF airtable_unique_identifier.type # "dict"
    THEN [raised |-> "", column |-> None, field |-> None]
    ELSE IF airtable_unique_identifier.items = <<>>
    THEN [raised |-> "IndexError", column |-> None, field |-> None]
    ELSE [raised |-> "", column |-> airtable_unique_identifier.items[1][1],
          field |-> airtable_unique_identifier.items[1][2]]

\* Importer.run on a model whose unique identifier resolved to r: the model
\* is skipped, or imported, or the exception leaves run()
UniqueIdentifierStep(r) ==
    IF r.raised # "" THEN r.raised
    ELSE IF r.field = None /\ r.column = None THEN "continue"
    ELSE "import"

\* tests/settings.py, with entries for the other models of tests/models.py
UtilSettings ==
    LET extra == Put(AdvertSettings, "EXTRA_SUPPORTED_MODELS", <<<<"tests", "SimilarToAdvert">>>>)
        off(ms) == Put(ms, "AIRTABLE_IMPORT_ALLOWED", FALSE)
        adverts == {AdvertSettings, extra, off(extra)}
        others == {<<>>, [SimilarToAdvert |-> AdvertSettings],
                   [ModelNotUsed |-> off(AdvertSettings)],
                   [SimilarToAdvert |-> AdvertSettings, ModelNotUsed |-> off(AdvertSettings)]}
    IN {[WAGTAIL_AIRTABLE_ENABLED |-> TRUE, AIRTABLE_API_KEY |-> "keyWoWoWoWoW",
         AIRTABLE_IMPORT_SETTINGS |->
             Merge([SimplePage |-> AdvertSettings, Advert |-> a], o)] :
           a \in adverts, o \in others}

\* local stores of up to two records of any models, with and without a row id
UtilStores ==
    LET firsts == {r \in UNION {StoredRecords(m, {"x"}, {FALSE}) : m \in Models} :
                      r.slug = "a" /\ r.airtable_record_id # "rec2"}
        seconds == {r \in UNION {StoredRecords(m, {"y"}, {FALSE}) :
                                    m \in {"SimilarToAdvert", "ModelNotUsed"}} :
                       r.slug = "b" /\ r.airtable_record_id # "rec1"}
    IN {<<>>} \cup {<<r>> : r \in firsts} \cup (firsts \X seconds)

\* rows and mappings handed to convert_mapped_fields
FieldDicts ==
    {<<>>, [Slug |-> "a"], [Slug |-> "a", Title |-> "x"], [Name |-> "y", Title |-> "x"],
     [Slug |-> "a", Name |-> "y", Title |-> "x"], [Other |-> "z", Title |-> "x"]}
Mappings ==
    {<<>>, [Slug |-> "slug"], [Slug |-> "slug", Title |-> "title"],
     [Slug |-> "slug", Title |-> "title", Name |-> "title"]}

InitUtils ==
    /\ settings \in UtilSettings
    /\ db \in UtilStores
    /\ nextPk = Len(db) + 1
    /\ remote \in {[t \in {PushTable} |-> tb] :
                      tb \in {<<>>} \cup [RemoteIds -> [Title : {"x"}, Slug : Slugs]]}
    /\ issued = 0
    /\ inst = NoInst
    /\ calls = <<>>
    /\ last = [op |-> "none"]
    /\ ops = 0
    /\ imp = Idle

\* get_validated_models(models=labels), the first statement of Importer.run
Validate ==
    /\ last.op = "none"
    /\ \E models \in {<<>>} \cup {<<l>> : l \in Labels} \cup (Labels \X Labels) :
          last' = [op |-> "get_validated_models", models |-> models,
                   result |-> get_validated_models(models)]
    /\ UNCHANGED <<settings, db, nextPk, remote, issued, inst, calls, ops, imp>>

\* manage.py reset_local_airtable_records
Reset ==
    /\ last.op = "none"
    /\ db' = handle(db, Command_get_all_models)
    /\ last' = [op |-> "reset", store |-> db]
    /\ UNCHANGED <<settings, nextPk, remote, issued, inst, calls, ops, imp>>

\* instance.match_record() on a stored record whose model is set up for Airtable
Match ==
    /\ last.op = "none"
    /\ \E pk \in DOMAIN db, answer \in Responses :
          LET i == setup_airtable(Loaded(pk))
              uid == i.flags.config.unique_identifier
              c == Ctx(i, db, remote, issued, <<answer>>)
          IN /\ i.flags.is_enabled
             /\ last' = [op |-> "match_record", answer |-> answer,
                         records |-> client_search(c, uid[1], i[uid[2]]).ret,
                         raised |-> match_record(c).raised,
                         ret |-> match_record(c).ret]
    /\ UNCHANGED <<settings, db, nextPk, remote, issued, inst, calls, ops, imp>>

\* convert_mapped_fields(record_fields_dict, mapped_fields_dict)
Convert ==
    /\ last.op = "none"
    /\ \E fields \in FieldDicts, mapping \in Mappings :
          last' = [op |-> "convert_mapped_fields", fields |-> fields, mapping |-> mapping,
                   result |-> convert_mapped_fields(fields, mapping)]
    /\ UNCHANGED <<settings, db, nextPk, remote, issued, inst, calls, ops, imp>>

\* get_column_to_field_names(spec), and what Importer.run does with the result
ColumnToField ==
    /\ last.op = "none"
    /\ \E spec \in UniqueIdentifierSpecs :
          last' = [op |-> "get_column_to_field_names", spec |-> spec,
                   result |-> get_column_to_field_names(spec),
                   run |-> UniqueIdentifierStep(get_column_to_field_names(spec))]
    /\ UNCHANGED <<settings, db, nextPk, remote, issued, inst, calls, ops, imp>>

\* AirtableMixin.parse_request_error(error)
ParseError ==
    /\ last.op = "none"
    /\ \E error \in ErrorMessages \cup {EmptyError} :
          last' = [op |-> "parse_request_error", error |-> error,
                   result |-> parse_request_error(error)]
    /\ UNCHANGED <<settings, db, nextPk, remote, issued, inst, calls, ops, imp>>

NextUtils == Validate \/ Reset \/ Match \/ Convert \/ ColumnToField \/ ParseError

SpecUtils == InitUtils /\ [][NextUtils]_vars

----------------------------------------------------------------------------
(* Properties of the push on save *)

AllOk(answers) == \A k \in DOMAIN answers : answers[k] = "ok"

\* the rows of table tb whose unique-identifier column holds value
MatchingRows(tb, value) ==
    {id \in DOMAIN tb : "Slug" \in DOMAIN tb[id] /\ tb[id]["Slug"] = value}

\* the last operation was a save() that pushed: the integration is enabled,
\* the instance's push flag was on and the local write was a legal one
PushedSave ==
    /\ last.op = "save"
    /\ last.outcome # "budget"
    /\ inst.flags.is_enabled
    /\ last.pre.flags.push_to_airtable
    /\ SaveError(last.store, last.pre) = "ok"
    /\ ~(last.force_insert /\ last.pre.pk \in DOMAIN last.store)

Persisted == inst.pk \in DOMAIN db

\* C4: a save() of an enabled entity with an empty airtable_record_id whose
\* slug matches an existing remote row, the remote answering every call,
\* updates that row, inserts no row, and leaves the matched row's id stored
\* as the entity's airtable_record_id.
C4_NoDuplicateOnPush ==
    (/\ PushedSave
     /\ last.pre.airtable_record_id = NoId
     /\ MatchingRows(last.remote[PushTable], last.pre.slug) # {}
     /\ AllOk(last.answers))
    => /\ last.outcome = "ok"
       /\ DOMAIN remote[PushTable] = DOMAIN last.remote[PushTable]
       /\ \A k \in DOMAIN calls : calls[k][1] # "insert"
       /\ \E k \in DOMAIN calls :
             /\ calls[k][1] = "update"
             /\ calls[k][2] \in MatchingRows(last.remote[PushTable], last.pre.slug)
             /\ inst.airtable_record_id = calls[k][2]
             /\ Persisted
             /\ db[inst.pk].airtable_record_id = calls[k][2]

\* C5: after a save() that pushed and ended without a remote error (the
\* fallback from a stale id included), the stored airtable_record_id is the id
\* of the remote row that the save updated or inserted.
C5_PersistedIdIsPushedRow ==
    (/\ PushedSave
     /\ ~last.force_insert
     /\ last.outcome = "ok"
     /\ calls # <<>>
     /\ ~inst.flags.has_error)
    => /\ calls[Len(calls)][1] \in {"update", "insert"}
       /\ Persisted
       /\ db[inst.pk].airtable_record_id = calls[Len(calls)][2]

\* the first super().save() of the last save() wrote the record
LocalWriteOk ==
    /\ SaveError(last.store, last.pre) = "ok"
    /\ ~(last.force_insert /\ last.pre.pk \in DOMAIN last.store)

\* the stored row holds the fields the instance had when save() was called
WrittenAsGiven ==
    /\ Persisted
    /\ db[inst.pk].slug = last.pre.slug
    /\ db[inst.pk].title = last.pre.title

SomeCallFailed == \E k \in DOMAIN last.answers : last.answers[k] = "err"

\* C11: a plain save() whose local write is legal and during which some remote
\* call fails, whatever the text of the error, returns without raising, leaves
\* the local write stored and attaches an error message to the instance.
C11_RemoteFailureIsContained ==
    (/\ last.op = "save"
     /\ last.outcome # "budget"
     /\ ~last.force_insert
     /\ LocalWriteOk
     /\ SomeCallFailed)
    => /\ last.outcome = "ok"
       /\ WrittenAsGiven
       /\ inst.flags.has_error

\* the last operation was a delete() of an enabled entity that holds a record id
PushedDelete ==
    /\ last.op = "delete"
    /\ inst.flags.is_enabled
    /\ last.pre.flags.push_to_airtable
    /\ last.pre.airtable_record_id # NoId

\* C12: delete() on an enabled entity with an airtable_record_id calls the
\* remote delete for that id once, while the record is still stored, and then
\* removes the local record and nothing else, whatever the remote answered.
C12_DeleteAlwaysDeletesLocally ==
    PushedDelete
    => /\ last.outcome = "ok"
       /\ calls = <<<<"delete", last.pre.airtable_record_id, TRUE>>>>
       /\ last.pre.pk \in DOMAIN last.store
       /\ db = Restrict(last.store, DOMAIN last.store \ {last.pre.pk})

\* a delete() whose remote call failed, or named a row the remote does not hold
C12_Witness ==
    /\ PushedDelete
    /\ \/ last.answers = <<"err">>
       \/ last.pre.airtable_record_id \notin DOMAIN last.remote[PushTable]
    /\ inst.pk \notin DOMAIN db

\* C13: every remote call of a save() is made after the first local write of
\* that save: the write was legal, and at each call the instance had its
\* primary key and its row was in the local store.
C13_PushFollowsLocalWrite ==
    (last.op = "save" /\ calls # <<>>)
    => /\ LocalWriteOk
       /\ inst.pk # 0
       /\ \A k \in DOMAIN calls : calls[k][3]

\* a save() of a new instance that computed its export fields and sent them
C13_Witness ==
    /\ last.op = "save"
    /\ last.pre.pk = 0
    /\ inst.flags.export # <<>>
    /\ \E k \in DOMAIN calls : calls[k][1] \in {"insert", "update"}

\* the last save() or delete() had no reason to call the remote
NoPushExpected ==
    /\ last.op \in {"save", "delete"}
    /\ \/ ~inst.flags.is_enabled
       \/ ~last.pre.flags.push_to_airtable
       \/ last.op = "delete" /\ last.pre.airtable_record_id = NoId

\* C14: save() and delete() on a disabled instance, or with push_to_airtable
\* false, and delete() with an empty airtable_record_id, call the remote not
\* once and leave it as it was, and the local save or delete takes place.
C14_NoPushWhenDisabledOrSuppressed ==
    NoPushExpected
    => /\ calls = <<>>
       /\ remote = last.remote
       /\ last.op = "delete" =>
             /\ last.outcome = "ok"
             /\ db = Restrict(last.store, DOMAIN last.store \ {last.pre.pk})
       /\ (last.op = "save" /\ LocalWriteOk) =>
             /\ last.outcome = "ok"
             /\ WrittenAsGiven
             /\ db[inst.pk].airtable_record_id = last.pre.airtable_record_id

\* a save() of an enabled instance whose push_to_airtable flag was off
C14_Witness ==
    /\ last.op = "save"
    /\ inst.flags.is_enabled
    /\ ~last.pre.flags.push_to_airtable
    /\ last.outcome = "ok"
    /\ WrittenAsGiven

\* C15: a save() of an enabled entity whose airtable_record_id names a row of
\* the remote table makes two remote calls: one get of that id and one update
\* of that id; it searches for nothing and inserts nothing.
C15_ExistingRowIsOnlyUpdated ==
    (/\ PushedSave
     /\ last.pre.airtable_record_id \in DOMAIN last.remote[PushTable])
    => /\ Len(calls) = 2
       /\ calls[1][1] = "get" /\ calls[1][2] = last.pre.airtable_record_id
       /\ calls[2][1] = "update" /\ calls[2][2] = last.pre.airtable_record_id
       /\ DOMAIN remote[PushTable] = DOMAIN last.remote[PushTable]

\* C31: every save() ends within the remote calls it is given answers for:
\* the fallback between update_record and create_record does not go on once
\* the existence check of a row that the search returned has failed.
C31_SaveEndsWithinItsCalls ==
    last.op = "save" => last.outcome # "budget"

\* C32: a save() of an enabled entity whose airtable_record_id names a row of
\* the remote table searches for nothing, inserts nothing and leaves the
\* remote table with the rows it had, whatever the remote answers.
C32_NoCreateWhileRowExists ==
    (/\ PushedSave
     /\ last.pre.airtable_record_id \in DOMAIN last.remote[PushTable])
    => /\ \A k \in DOMAIN calls : calls[k][1] \notin {"search", "insert"}
       /\ DOMAIN remote[PushTable] \subseteq DOMAIN last.remote[PushTable]

\* the last call of the last save() was an update or an insert that the
\* remote accepted
PushAccepted ==
    /\ PushedSave
    /\ calls # <<>>
    /\ calls[Len(calls)][1] \in {"update", "insert"}
    /\ last.answers[Len(calls)] = "ok"
    /\ calls[Len(calls)][2] \in DOMAIN remote[PushTable]

\* the export fields of the instance as it was when the last save() was called
ExportAtSave ==
    [Title |-> last.pre.title, Slug |-> last.pre.slug,
     Publications |-> IF last.pre.pk \in DOMAIN last.store
                      THEN last.store[last.pre.pk].publications ELSE {}]

\* C34: the row that a save() updated or inserted holds the export fields
\* computed from the instance's field values at the time of that save, also
\* when an earlier save() of the same instance left other values cached.
C34_PushCarriesCurrentFields ==
    PushAccepted
    => \A f \in DOMAIN ExportAtSave :
          remote[PushTable][calls[Len(calls)][2]][f] = ExportAtSave[f]

\* a save() pushed the instance while it held the export fields of an earlier
\* save(), computed before its title was changed
C34_Witness ==
    /\ PushAccepted
    /\ last.pre.flags.export # <<>>
    /\ Head(last.pre.flags.export).Title # last.pre.title

\* C35: an instance whose last save() pushed with every remote call answered
\* carries no sync error, whatever its earlier saves left.
C35_ErrorReflectsLastSave ==
    (/\ PushedSave
     /\ last.outcome = "ok"
     /\ calls # <<>>
     /\ AllOk(last.answers)
     /\ calls[Len(calls)][1] \in {"update", "insert"})
    => ~inst.flags.has_error

----------------------------------------------------------------------------
(* Properties of setup_airtable *)

\* what setup_airtable leaves on an instance
SyncAttributes(i) ==
    [ran_airtable_setup |-> i.flags.ran_airtable_setup, is_enabled |-> i.flags.is_enabled,
     internal_push |-> i.flags.internal_push, client |-> i.flags.client,
     config |-> i.flags.config]

\* C16: once setup_airtable has run on an instance, no later step - another
\* call of it, a save(), a delete(), a change of the settings - changes the
\* setup flag, the enabled flag, the internal push flag, the configuration
\* values or the client of the instance.
C16_SetupIsIdempotent ==
    [][(inst # NoInst /\ inst.flags.ran_airtable_setup)
          => (inst' # NoInst /\ SyncAttributes(inst') = SyncAttributes(inst))]_vars

\* the settings, as they are now, enable the type label
Configured(label) ==
    /\ settings.WAGTAIL_AIRTABLE_ENABLED
    /\ settings.AIRTABLE_API_KEY # ""
    /\ label \in DOMAIN settings.AIRTABLE_IMPORT_SETTINGS
    /\ Get(settings.AIRTABLE_IMPORT_SETTINGS[label], "AIRTABLE_BASE_KEY") # ""
    /\ Get(settings.AIRTABLE_IMPORT_SETTINGS[label], "AIRTABLE_TABLE_NAME") # ""
    /\ "AIRTABLE_UNIQUE_IDENTIFIER" \in DOMAIN settings.AIRTABLE_IMPORT_SETTINGS[label]

\* the last step was the first setup_airtable() of the instance
FirstSetup == last.op = "setup" /\ ~last.pre.flags.ran_airtable_setup

\* setup_airtable() was called on an instance that was set up under settings
\* that differ from the present ones in whether they enable its type
C16_Witness ==
    /\ last.op = "setup"
    /\ last.pre.flags.ran_airtable_setup
    /\ inst.flags.is_enabled # Configured(inst.model)

\* C17: the first setup_airtable() leaves the instance enabled exactly when the
\* global switch, the API key, the base, the table and the unique identifier
\* are all set; always, _is_enabled equals _push_to_airtable, and an enabled
\* instance has run its setup and holds a client.
C17_EnabledIffConfigured ==
    /\ inst # NoInst =>
          /\ inst.flags.is_enabled = inst.flags.internal_push
          /\ inst.flags.is_enabled =>
                inst.flags.ran_airtable_setup /\ inst.flags.client # NoClient
    /\ FirstSetup =>
          /\ inst.flags.ran_airtable_setup
          /\ inst.flags.is_enabled = Configured(inst.model)

\* a first setup that ended disabled although the global switch is on and the
\* type has a settings entry
C17_Witness ==
    /\ FirstSetup
    /\ settings.WAGTAIL_AIRTABLE_ENABLED
    /\ inst.model \in DOMAIN settings.AIRTABLE_IMPORT_SETTINGS
    /\ ~inst.flags.is_enabled

\* C18: a type without a settings entry of its own whose parent type is fully
\* configured resolves to the parent's settings: its instances end the first
\* setup_airtable() enabled, and its settings lookup gives the parent's entry.
C18_ChildTypeUsesParentSettings ==
    (/\ FirstSetup
     /\ inst.model \notin DOMAIN settings.AIRTABLE_IMPORT_SETTINGS
     /\ Parent(inst.model) # inst.model
     /\ Configured(Parent(inst.model)))
    => /\ inst.flags.is_enabled
       /\ ModelSettings(inst.model) = settings.AIRTABLE_IMPORT_SETTINGS[Parent(inst.model)]

----------------------------------------------------------------------------
(* Properties of the bulk import *)

ProcessedRow == last.op = "row"

\* the row's data as the serializer sees it
RowData == convert_mapped_fields(last.record.fields, map_import_fields)

\* the local records the row matched, before it was processed
ById == Filter(last.store, last.model, "airtable_record_id", last.record.id)
ByUid == Filter(last.store, last.model, "slug", FieldOrNone(last.record.fields, "Slug"))

\* the row was not set aside as used by an earlier entity type of the run
Fresh == last.record.id \notin Range(last.before.records_used)

\* C1: in a second run that follows a run that returned, nothing changing in
\* between, a row that matches local records by id or by unique identifier
\* leads to no save of any of them and to no new revision of them.
C1_SecondRunSavesNothing ==
    (/\ ProcessedRow
     /\ last.before.run = 2
     /\ last.before.prev = "returned"
     /\ Fresh)
    => \A pk \in ById \cup ByUid :
          /\ pk \notin last.saved
          /\ db[pk].revisions = last.store[pk].revisions

\* C2: when the row's id is the airtable_record_id of record L1 and the row's
\* slug is the slug of a different record L2 of the same type, L2 is the same
\* after the row as before it.
C2_IdMatchLeavesUidMatchAlone ==
    (/\ ProcessedRow
     /\ Fresh
     /\ ById # {}
     /\ ByUid \ ById # {})
    => \A L2 \in ByUid \ ById : L2 \in DOMAIN db /\ db[L2] = last.store[L2]

\* C3: processing a row, whatever it saves locally, makes no remote call.
C3_ImportSavesDoNotPush ==
    ProcessedRow => calls = <<>>

\* C6: within one run of the command no table is fetched twice.
C6_AtMostOneFetchPerTable ==
    imp.importer = "Importer"
    => \A j, k \in DOMAIN imp.fetched : imp.fetched[j] = imp.fetched[k] => j = k

\* C7: a valid row that matches a locked page, and no other record, leaves
\* the page's stored state as it was - fields, publications, airtable_record_id
\* and revisions - and the command counts it as skipped.
C7_LockedPageUntouched ==
    (/\ ProcessedRow
     /\ Fresh
     /\ IsPage(last.model)
     /\ is_valid(RowData)
     /\ Cardinality(ById \cup ByUid) = 1
     /\ \A pk \in ById \cup ByUid : last.store[pk].locked)
    => /\ db = last.store
       /\ imp.importer = "Importer" =>
             /\ imp.skipped = last.before.skipped + 1
             /\ imp.updated = last.before.updated
             /\ imp.created = last.before.created

\* the records the row created
Created == DOMAIN db \ DOMAIN last.store

\* C8: a valid row of a plain model that matches no local record creates
\* exactly one record, with the row's mapped values and the row's id, under a
\* pk the store assigns, and the command's created count rises by one.
C8_UnmatchedValidRowCreatesOne ==
    (/\ ProcessedRow
     /\ Fresh
     /\ ~IsPage(last.model)
     /\ is_valid(RowData)
     /\ ById \cup ByUid = {})
    => /\ Cardinality(Created) = 1
       /\ \A pk \in Created :
             /\ db[pk].slug = RowData["slug"]
             /\ db[pk].title = RowData["title"]
             /\ db[pk].publications = IF "publications" \in DOMAIN RowData
                                       THEN RowData["publications"] ELSE {}
             /\ db[pk].airtable_record_id = last.record.id
       /\ \A pk \in DOMAIN last.store : db[pk] = last.store[pk]
       /\ imp.importer = "Importer" => imp.created = last.before.created + 1

\* C9: a row whose data is invalid changes nothing locally, matched or not;
\* process_record reports it with errors and the command counts it as skipped.
C9_InvalidRowChangesNothing ==
    (/\ ProcessedRow
     /\ Fresh
     /\ ~is_valid(RowData))
    => /\ db = last.store
       /\ imp.importer = "AirtableModelImporter" => last.result.errors = "invalid"
       /\ imp.importer = "Importer" => imp.skipped = last.before.skipped + 1

\* C10: no exception leaves the processing of a row, so the run goes on to
\* the rows and the entity types that follow.
C10_RowErrorsAreContained ==
    ProcessedRow => last.raised = "" /\ imp.phase = "rows"

\* C19: when the command finds a local record by the row's id, the row is
\* settled there, however the update ended: the row is marked used, no record
\* that only shares the row's slug is touched, and no record is created.
C19_IdMatchSettlesTheRow ==
    (/\ ProcessedRow
     /\ Fresh
     /\ imp.importer = "Importer"
     /\ ById # {})
    => /\ last.record.id \in Range(imp.records_used)
       /\ Created = {}
       /\ \A pk \in ByUid \ ById : pk \in DOMAIN db /\ db[pk] = last.store[pk]

\* C20: after a valid row that matched no record by id and an unlocked record
\* by its slug, that record's stored airtable_record_id is the row's id, also
\* when the row's values are the values the record already has.
C20_UidMatchStoresRowId ==
    (/\ ProcessedRow
     /\ Fresh
     /\ is_valid(RowData)
     /\ ById = {}
     /\ ByUid # {}
     /\ ~last.store[First(ByUid)].locked)
    => /\ First(ByUid) \in DOMAIN db
       /\ db[First(ByUid)].airtable_record_id = last.record.id

\* C21: within one run of the command over entity types that share a remote
\* table, a row that was updated into or created as a local record of one type
\* is not processed for a later type: the later type's pass over the row makes
\* no save and leaves the store and the run's bookkeeping as they were.
C21_SettledRowIsNotProcessedAgain ==
    (/\ ProcessedRow
     /\ imp.importer = "Importer"
     /\ last.model # imp.models[1]
     /\ ClientOf(ModelSettings(last.model)) = ClientOf(ModelSettings(imp.models[1]))
     /\ last.record.id \in last.before.settled)
    => /\ db = last.store
       /\ last.tried = 0
       /\ imp.records_used = last.before.records_used
       /\ imp.created = last.before.created
       /\ imp.updated = last.before.updated
       /\ imp.skipped = last.before.skipped

\* C22: for a page type whose parent page cannot be resolved - none is
\* configured, or the configured id names no page - a row that matches no local
\* page leads to no new page and to no attempt to save one, the created count
\* stays as it was, and the command marks the row as used.
C22_NoParentNoPageAttempt ==
    (/\ ProcessedRow
     /\ Fresh
     /\ IsPage(last.model)
     /\ Get(ModelSettings(last.model), "PARENT_PAGE_ID") \notin Pages
     /\ ById \cup ByUid = {})
    => /\ Created = {}
       /\ last.tried = 0
       /\ imp.created = last.before.created
       /\ imp.importer = "Importer" => last.record.id \in Range(imp.records_used)

\* C23: when the fetch of one entity type's table fails during a run of the
\* command over several types, the failure stays with that type: the run is
\* not aborted and goes on to the types that follow.
C23_FetchFailureIsContained ==
    (/\ last.op = "fetch"
     /\ last.failed
     /\ imp.importer = "Importer"
     /\ Len(imp.models) > 1)
    => imp.phase # "aborted"

\* C33: when process_record reports a row with an exception, raised while
\* the row's local mutation was under way, the local store after the row is
\* the store before it.
C33_FailedRowLeavesStoreAsItWas ==
    (/\ ProcessedRow
     /\ imp.importer = "AirtableModelImporter"
     /\ last.result.errors = "exception")
    => db = last.store

\* the rows the command has counted
Counted(run) == run.created + run.updated + run.skipped

\* C36: every row processed is accounted for once: process_record returns
\* one result, for that row, and the command's created, updated and skipped
\* counts rise by one in total.
C36_EachRowCountedOnce ==
    (/\ ProcessedRow
     /\ Fresh
     /\ last.raised = "")
    => /\ imp.importer = "AirtableModelImporter" =>
             last.result # <<>> /\ last.result.record_id = last.record.id
       /\ imp.importer = "Importer" => Counted(imp) = Counted(last.before) + 1

\* C37: after the command has processed a row, at most one local record of
\* the row's type holds the row's id as its airtable_record_id.
C37_AtMostOneRecordPerRowId ==
    (/\ ProcessedRow
     /\ Fresh
     /\ imp.importer = "Importer"
     /\ last.raised = "")
    => Cardinality(Filter(db, last.model, "airtable_record_id", last.record.id)) <= 1

\* C39: the records a type is reconciled against come from the table it is
\* configured for: the command serves a type from its cache only when the
\* run has fetched that type's base and table.
C39_CacheHitIsForTheSameTable ==
    (/\ last.op = "fetch"
     /\ last.hit)
    => ClientOf(ModelSettings(last.model)) \in Range(imp.fetched)

\* C40: the new flag of every result of process_record is true exactly when
\* the row matched no local record by id or by unique identifier.
C40_NewMeansNoMatch ==
    (/\ ProcessedRow
     /\ imp.importer = "AirtableModelImporter")
    => (last.result.new <=> ById \cup ByUid = {})

\* the value of the row's unique-identifier column, None when it is missing
RowUid ==
    FieldOrNone(last.record.fields, UniqueIdentifier(ModelSettings(last.model))[1])

\* C38: a row whose unique-identifier column is missing or empty, and whose
\* id no local record holds, is matched to no local record: every record of
\* the store is after the row as it was before it.
C38_EmptyUidMatchesNothing ==
    (/\ ProcessedRow
     /\ Fresh
     /\ RowUid \in {None, ""}
     /\ ById = {})
    => \A pk \in DOMAIN last.store : pk \in DOMAIN db /\ db[pk] = last.store[pk]

----------------------------------------------------------------------------
(* Properties of the utilities *)

\* the label names no model of the project, whether it has an app prefix or not
Unrecognised(label) ==
    label[Len(label)] \notin Models \/ (Len(label) > 1 /\ label[1] # "tests")

\* C24: when one of the identifiers given to the import names no model, at
\* whatever place of the list and with or without an app prefix, validating
\* the identifiers - the first thing the run does, before any fetch or local
\* write - fails with ImproperlyConfigured.
C24_UnknownIdentifierFailsTheRun ==
    (/\ last.op = "get_validated_models"
     /\ \E k \in DOMAIN last.models : Unrecognised(last.models[k]))
    => last.result.raised = "ImproperlyConfigured"

\* C25: given identifiers that all name models, get_validated_models raises
\* nothing and returns, in the order given, the models whose settings entry
\* does not set AIRTABLE_IMPORT_ALLOWED to False - a model that has no entry
\* of its own among them.
C25_ValidatedModelsAreTheAllowedOnes ==
    (/\ last.op = "get_validated_models"
     /\ \A k \in DOMAIN last.models :
           Len(last.models[k]) = 2 /\ ~Unrecognised(last.models[k]))
    => /\ last.result.raised = ""
       /\ last.result.models =
             SelectSeq([k \in DOMAIN last.models |-> last.models[k][2]],
                       LAMBDA model : ImportAllowed(ModelSettings(model)))

\* C26: after the reset command every record of every model that has a
\* settings entry or is listed in an entry's EXTRA_SUPPORTED_MODELS, import
\* allowed or not, has an empty airtable_record_id, and no record differs
\* from what it was in anything else.
C26_ResetClearsEveryConfiguredType ==
    last.op = "reset"
    => /\ DOMAIN db = DOMAIN last.store
       /\ \A pk \in DOMAIN db :
             /\ [db[pk] EXCEPT !.airtable_record_id = last.store[pk].airtable_record_id]
                   = last.store[pk]
             /\ (\/ db[pk].model \in DOMAIN settings.AIRTABLE_IMPORT_SETTINGS
                 \/ \E label \in DOMAIN settings.AIRTABLE_IMPORT_SETTINGS :
                       /\ "EXTRA_SUPPORTED_MODELS" \in DOMAIN ModelSettings(label)
                       /\ <<"tests", db[pk].model>>
                             \in Range(ModelSettings(label)["EXTRA_SUPPORTED_MODELS"]))
                => db[pk].airtable_record_id = NoId

\* C27: when the search answers, match_record raises nothing and returns the
\* id of the first row of the search result, however many rows it holds, and
\* the empty string when it holds none.
C27_MatchRecordReturnsFirstRow ==
    (last.op = "match_record" /\ last.answer = "ok")
    => /\ ~last.raised
       /\ last.ret = IF last.records = <<>> THEN NoId ELSE last.records[1]

C27_Witness ==
    /\ last.op = "match_record"
    /\ Len(last.records) > 1
    /\ last.ret = last.records[1]

\* C28: convert_mapped_fields returns a dict whose keys are the fields that the
\* mapping gives to the columns the row has, unmapped columns dropped and
\* columns the row lacks left out, each key holding the value of a column
\* mapped to it - of the one column when only one is.
C28_ConvertKeepsExactlyTheMappedColumns ==
    last.op = "convert_mapped_fields"
    => LET keys == DOMAIN last.fields \cap DOMAIN last.mapping
       IN /\ DOMAIN last.result = {last.mapping[k] : k \in keys}
          /\ \A f \in DOMAIN last.result :
                \E k \in keys : last.mapping[k] = f /\ last.result[f] = last.fields[k]

C28_Witness ==
    /\ last.op = "convert_mapped_fields"
    /\ DOMAIN last.fields \ DOMAIN last.mapping # {}
    /\ DOMAIN last.mapping \ DOMAIN last.fields # {}
    /\ "title" \in DOMAIN last.result
    /\ last.result["title"] = last.fields["Title"]

\* C29: get_column_to_field_names raises nothing; it returns (s, s) for a
\* string s, (column, field) for a dict of one entry, and (None, None) for
\* None, for an empty dict and for a value of any other type, and Importer.run
\* then skips the model and goes on.
C29_ColumnToFieldNeverRaises ==
    last.op = "get_column_to_field_names"
    => /\ last.result.raised = ""
       /\ last.spec.type = "str" =>
             last.result.column = last.spec.value /\ last.result.field = last.spec.value
       /\ (last.spec.type = "dict" /\ Len(last.spec.items) = 1) =>
             /\ last.result.column = last.spec.items[1][1]
             /\ last.result.field = last.spec.items[1][2]
       /\ (last.spec.type \notin {"str", "dict"}
             \/ (last.spec.type = "dict" /\ last.spec.items = <<>>)) =>
             /\ last.result.column = None
             /\ last.result.field = None
             /\ last.run = "continue"

\* C30: parse_request_error turns every error text into a parsed error: the
\* empty text and a 503 into 503 SERVICE_UNAVAILABLE, a 502 into 502
\* SERVER_ERROR, a text whose body is NOT_FOUND into its status code with
\* NOT_FOUND, and any other text into its status code with the type its body gives.
C30_EveryErrorTextIsParsed ==
    last.op = "parse_request_error"
    => /\ last.result.raised = ""
       /\ IF last.error = EmptyError \/ last.error.code = 503
          THEN last.result.status_code = 503 /\ last.result.type = "SERVICE_UNAVAILABLE"
          ELSE IF last.error.code = 502
          THEN last.result.status_code = 502 /\ last.result.type = "SERVER_ERROR"
          ELSE IF last.error.body = "NOT_FOUND"
          THEN last.result.status_code = last.error.code /\ last.result.type = "NOT_FOUND"
          ELSE last.result.status_code = last.error.code

====
